---- MODULE Spec2Model ----
(***************************************************************************)
(* Model of the document-retrieval backend:                                *)
(*   app/chunker.py, app/embedder.py, app/api/upload.py,                   *)
(*   app/api/query.py, app/services/query_processor.py.                    *)
(*                                                                         *)
(* The persisted state is the pair of files faiss_index.index/chunks.pkl.  *)
(* One uploader (POST /upload) and one querier (POST /query) act on it.    *)
(* Positions are zero-based as in the source; TLA+ sequences are one-based,*)
(* so chunk number p of a list c is c[p + 1].                              *)
(***************************************************************************)
EXTENDS Integers, Sequences, FiniteSets, TLC

\* ------------------------------------------------------------------ bounds
MaxFiles == 2          \* files in one /upload call
MaxVariants == 2       \* query variants returned by expand_query
MaxTopK == 2           \* largest top_k a request carries

\* ------------------------------------------------------- program constants
ShortParagraphWords == 50     \* chunker.py: len(paragraph.split()) < 50
TargetWords == 100            \* chunker.py: current_length >= 100
ContextWindow == 2            \* get_context_window(window_size = 2)
DefaultMinScore == 300        \* min_relevance_score = 0.3, in thousandths

\* ------------------------------------------------------- Python sequences
Min2(a, b) == IF a <= b THEN a ELSE b
Max2(a, b) == IF a >= b THEN a ELSE b

\* seq[a:b] of Python for integers a, b (negative values count from the end)
PySlice(seq, a, b) ==
    LET n  == Len(seq)
        lo == IF a < 0 THEN Max2(n + a, 0) ELSE Min2(a, n)
        hi == IF b < 0 THEN Max2(n + b, 0) ELSE Min2(b, n)
    IN  IF hi <= lo THEN << >> ELSE SubSeq(seq, lo + 1, hi)

\* seq[i] of Python is defined for -len <= i < len; otherwise IndexError
PyIndexOk(seq, i) == i < Len(seq) /\ i >= 0 - Len(seq)
PyIndex(seq, i) == IF i >= 0 THEN seq[i + 1] ELSE seq[Len(seq) + i + 1]

\* ---------------------------------------------------------------- chunker
\* A text is a sequence of paragraphs (the pieces between blank lines); a
\* paragraph is a sequence of sentences (the pieces re.split yields); a
\* sentence is [id, words]: its content and its number of words.  A chunk's
\* text is the sequence of the ids of the sentences joined into it.
RECURSIVE WordCount(_)
WordCount(sentences) ==
    IF sentences = << >> THEN 0
    ELSE Head(sentences).words + WordCount(Tail(sentences))

SentenceIds(sentences) == [i \in 1..Len(sentences) |-> sentences[i].id]

MakeChunk(text, doc_name, para_idx, sent_idx) ==
    [chunk_text |-> text, document |-> doc_name, page |-> 1,
     paragraph |-> para_idx, sentence |-> sent_idx]

\* AccumulateSentences without the flush at the last sentence
RECURSIVE AccumulateSentencesDropsTail(_, _, _, _, _, _, _)
AccumulateSentencesDropsTail(sentences, sent_idx, current_chunk, current_length, doc_name, para_idx, chunks) ==
    IF sent_idx > Len(sentences) THEN chunks
    ELSE LET cc == Append(current_chunk, sentences[sent_idx].id)
             cl == current_length + sentences[sent_idx].words
         IN  IF cl >= TargetWords
             THEN AccumulateSentencesDropsTail(sentences, sent_idx + 1, << >>, 0,
                      doc_name, para_idx,
                      Append(chunks, MakeChunk(cc, doc_name, para_idx, sent_idx)))
             ELSE AccumulateSentencesDropsTail(sentences, sent_idx + 1, cc, cl,
                      doc_name, para_idx, chunks)

\* AccumulateSentences that flushes above the target only
RECURSIVE AccumulateSentencesAbove(_, _, _, _, _, _, _)
AccumulateSentencesAbove(sentences, sent_idx, current_chunk, current_length, doc_name, para_idx, chunks) ==
    IF sent_idx > Len(sentences) THEN chunks
    ELSE LET cc == Append(current_chunk, sentences[sent_idx].id)
             cl == current_length + sentences[sent_idx].words
         IN  IF cl > TargetWords \/ sent_idx = Len(sentences)
             THEN AccumulateSentencesAbove(sentences, sent_idx + 1, << >>, 0,
                      doc_name, para_idx,
                      Append(chunks, MakeChunk(cc, doc_name, para_idx, sent_idx)))
             ELSE AccumulateSentencesAbove(sentences, sent_idx + 1, cc, cl,
                      doc_name, para_idx, chunks)

\* AccumulateSentences that does not empty current_chunk after a flush
RECURSIVE AccumulateSentencesKeepsBuffer(_, _, _, _, _, _, _)
AccumulateSentencesKeepsBuffer(sentences, sent_idx, current_chunk, current_length, doc_name, para_idx, chunks) ==
    IF sent_idx > Len(sentences) THEN chunks
    ELSE LET cc == Append(current_chunk, sentences[sent_idx].id)
             cl == current_length + sentences[sent_idx].words
         IN  IF cl >= TargetWords \/ sent_idx = Len(sentences)
             THEN AccumulateSentencesKeepsBuffer(sentences, sent_idx + 1, cc, 0,
                      doc_name, para_idx,
                      Append(chunks, MakeChunk(cc, doc_name, para_idx, sent_idx)))
             ELSE AccumulateSentencesKeepsBuffer(sentences, sent_idx + 1, cc, cl,
                      doc_name, para_idx, chunks)

\* the loop over the sentences of one long paragraph
RECURSIVE AccumulateSentences(_, _, _, _, _, _, _)
AccumulateSentences(sentences, sent_idx, current_chunk, current_length, doc_name, para_idx, chunks) ==
    IF sent_idx > Len(sentences) THEN chunks
    ELSE LET cc == Append(current_chunk, sentences[sent_idx].id)
             cl == current_length + sentences[sent_idx].words
         IN  IF cl >= TargetWords \/ sent_idx = Len(sentences)
             THEN AccumulateSentences(sentences, sent_idx + 1, << >>, 0,
                      doc_name, para_idx,
                      Append(chunks, MakeChunk(cc, doc_name, para_idx, sent_idx)))
             ELSE AccumulateSentences(sentences, sent_idx + 1, cc, cl,
                      doc_name, para_idx, chunks)

RECURSIVE ChunkParagraphs(_, _, _, _)
ChunkParagraphs(paragraphs, para_idx, doc_name, chunks) ==
    IF para_idx > Len(paragraphs) THEN chunks
    ELSE LET paragraph == paragraphs[para_idx]
         IN  IF WordCount(paragraph) < ShortParagraphWords
             THEN ChunkParagraphs(paragraphs, para_idx + 1, doc_name,
                      Append(chunks, MakeChunk(SentenceIds(paragraph),
                                               doc_name, para_idx, 1)))
             ELSE ChunkParagraphs(paragraphs, para_idx + 1, doc_name,
                      AccumulateSentences(paragraph, 1, << >>, 0,
                                          doc_name, para_idx, chunks))

\* chunk_text(extracted_text, doc_name): blank paragraphs are dropped first
chunk_text(extracted_text, doc_name) ==
    ChunkParagraphs(SelectSeq(extracted_text, LAMBDA p : p # << >>),
                    1, doc_name, << >>)

\* --------------------------------------------------------------- embedder
\* model.encode is a deterministic function of the text
Embed(text) == [vec |-> text]

\* embed_text_chunks / create_faiss_index: one vector per chunk, in order
create_faiss_index(chunks) ==
    [i \in 1..Len(chunks) |-> Embed(chunks[i].chunk_text)]

\* a file on disk: absent, opened for writing and not yet written, or written
Absent == [state |-> "absent", data |-> << >>]
Truncated == [state |-> "truncated", data |-> << >>]
Written(content) == [state |-> "ok", data |-> content]

\* ------------------------------------------------------------ upload input
S(id, words) == [id |-> id, words |-> words]

TextA == << << >>, <<S("a1", 60), S("a2", 50), S("a3", 5)>> >>
TextB == << <<S("b1", 20), S("b2", 20)>> >>
TextEmpty == << << >> >>

FileA == [filename |-> "a.txt", ext |-> ".txt", text |-> TextA]
FileB == [filename |-> "b.pdf", ext |-> ".pdf", text |-> TextB]
FileE == [filename |-> "e.txt", ext |-> ".txt", text |-> TextEmpty]
FileX == [filename |-> "x.exe", ext |-> ".exe", text |-> TextB]
Files == {FileA, FileB, FileE, FileX}

ALLOWED_EXTENSIONS == {".pdf", ".txt", ".docx", ".png", ".jpg", ".jpeg"}

FileLists == UNION {[1..n -> Files] : n \in 1..MaxFiles}

VARIABLES
    indexFile,     \* faiss_index.index
    chunksFile,    \* chunks.pkl
    upPc,          \* position of the uploader
    upFiles,       \* files of the current /upload call not yet processed
    upInput,       \* the files argument of the current call
    upCur,         \* process_file locals: file, chunks, index; and the
                   \* persisted pair as it was when process_file was entered
    upResults,     \* results list of upload_files
    upResp,        \* last response of /upload
    qPc,           \* position of the querier
    qReq,          \* the QueryRequest
    qIndex,        \* index returned by faiss.read_index
    qChunks,       \* chunks returned by pickle.load
    qVarsLeft,     \* query variations not yet searched
    qAll,          \* all_results
    qFiltered,     \* filtered_results
    qResp,         \* last response of /query
    qVariants,     \* len(query_variations); -1 before expand_query returns
    fResp,         \* last response of /query_results
    fnIn,          \* argument of the function under test
    fnOut          \* its result

upVars == <<upPc, upFiles, upInput, upCur, upResults, upResp>>
fileVars == <<indexFile, chunksFile>>
qVars == <<qPc, qReq, qIndex, qChunks, qVarsLeft, qAll, qFiltered, qResp,
          qVariants, fResp>>
fnVars == <<fnIn, fnOut>>

NoCur == [file |-> FileX, chunks |-> << >>, index |-> << >>,
          before |-> <<Absent, Absent>>]
NoResp == [status |-> 0]

UploadInit ==
    /\ indexFile = Absent
    /\ chunksFile = Absent
    /\ upPc = "idle"
    /\ upFiles = << >>
    /\ upInput = << >>
    /\ upCur = NoCur
    /\ upResults = << >>
    /\ upResp = NoResp

ErrorResult(file) == [filename |-> file.filename, status |-> "error", num_chunks |-> 0]
SuccessResult(file, chunks) ==
    [filename |-> file.filename, status |-> "success", num_chunks |-> Len(chunks)]

\* POST /upload with a non-empty list of files
UploadStart ==
    /\ upPc = "idle"
    /\ \E files \in FileLists :
          /\ upFiles' = files
          /\ upInput' = files
    /\ upPc' = "file"
    /\ upResults' = << >>
    /\ upResp' = NoResp
    /\ UNCHANGED <<upCur, fileVars, qVars, fnVars>>

\* FileReturns that gives up the remaining files after an error
FileReturnsStopsOnError(result) ==
    /\ upResults' = Append(upResults, result)
    /\ upFiles' = IF result.status = "error" THEN << >> ELSE Tail(upFiles)
    /\ upCur' = NoCur
    /\ upPc' = "file"

\* process_file returned: back to the loop of upload_files
FileReturns(result) ==
    /\ upResults' = Append(upResults, result)
    /\ upFiles' = Tail(upFiles)
    /\ upCur' = NoCur
    /\ upPc' = "file"

\* process_file up to create_faiss_index: validate, store the upload,
\* extract, chunk and embed.  Nothing here touches the persisted index.
ProcessFileBuild ==
    /\ upPc = "file"
    /\ upFiles # << >>
    /\ LET file == Head(upFiles)
           chunks == chunk_text(file.text, file.filename)
       IN  \E io_ok \in BOOLEAN :
             IF file.ext \in ALLOWED_EXTENSIONS /\ io_ok /\ chunks # << >>
             THEN /\ upCur' = [file |-> file, chunks |-> chunks,
                               index |-> create_faiss_index(chunks),
                               before |-> <<indexFile, chunksFile>>]
                  /\ upPc' = "write_index"
                  /\ UNCHANGED <<upFiles, upResults>>
             ELSE FileReturns(ErrorResult(file))
    /\ UNCHANGED <<upInput, upResp, fileVars, qVars, fnVars>>

\* save_index: faiss.write_index opens faiss_index.index for writing (the
\* open can fail and leave the file as it was) ...
WriteIndexOpen ==
    /\ upPc = "write_index"
    /\ \E ok \in BOOLEAN :
          IF ok THEN /\ indexFile' = Truncated
                     /\ upPc' = "write_index_data"
                     /\ UNCHANGED <<upFiles, upCur, upResults>>
          ELSE /\ FileReturns(ErrorResult(upCur.file))
               /\ UNCHANGED indexFile
    /\ UNCHANGED <<chunksFile, upInput, upResp, qVars, fnVars>>

\* ... and writes the index, or fails (the error becomes status "error")
WriteIndexData ==
    /\ upPc = "write_index_data"
    /\ \E ok \in BOOLEAN :
          IF ok THEN /\ indexFile' = Written(upCur.index)
                     /\ upPc' = "write_chunks"
                     /\ UNCHANGED <<upFiles, upCur, upResults>>
          ELSE /\ FileReturns(ErrorResult(upCur.file))
               /\ UNCHANGED indexFile
    /\ UNCHANGED <<chunksFile, upInput, upResp, qVars, fnVars>>

\* save_index: open(CHUNKS_PATH, "wb"), which can fail and leave the file as
\* it was ...
WriteChunksOpen ==
    /\ upPc = "write_chunks"
    /\ \E ok \in BOOLEAN :
          IF ok THEN /\ chunksFile' = Truncated
                     /\ upPc' = "write_chunks_data"
                     /\ UNCHANGED <<upFiles, upCur, upResults>>
          ELSE /\ FileReturns(ErrorResult(upCur.file))
               /\ UNCHANGED chunksFile
    /\ UNCHANGED <<indexFile, upInput, upResp, qVars, fnVars>>

\* ... and pickle.dump(chunks, f), or fails
WriteChunksData ==
    /\ upPc = "write_chunks_data"
    /\ \E ok \in BOOLEAN :
          IF ok THEN /\ chunksFile' = Written(upCur.chunks)
                     /\ upPc' = "save_text"
                     /\ UNCHANGED <<upFiles, upCur, upResults>>
          ELSE /\ FileReturns(ErrorResult(upCur.file))
               /\ UNCHANGED chunksFile
    /\ UNCHANGED <<indexFile, upInput, upResp, qVars, fnVars>>

\* process_file: write the extracted text to processed_text/, then return
SaveProcessedText ==
    /\ upPc = "save_text"
    /\ \E ok \in BOOLEAN :
          IF ok THEN FileReturns(SuccessResult(upCur.file, upCur.chunks))
          ELSE FileReturns(ErrorResult(upCur.file))
    /\ UNCHANGED <<upInput, upResp, fileVars, qVars, fnVars>>

\* upload_files after the loop
UploadRespond ==
    /\ upPc = "file"
    /\ upFiles = << >>
    /\ LET successful_uploads == SelectSeq(upResults, LAMBDA r : r.status = "success")
       IN  upResp' = IF successful_uploads = << >>
                     THEN [status |-> 400]
                     ELSE [status |-> 200,
                           files_processed |-> Len(successful_uploads),
                           total_files |-> Len(upInput),
                           results |-> upResults]
    /\ upPc' = "idle"
    /\ UNCHANGED <<upFiles, upInput, upCur, upResults, fileVars, qVars, fnVars>>


\* ------------------------------------------------- relevance and context
\* Scores are in thousandths, cosine similarities and distances in tenths.
MaxDistance == 20             \* max_distance = 2.0
CosineWeight == 7             \* 0.7 * cosine_sim
DistanceWeight == 3           \* 0.3 * similarity
Boost == 12                   \* combined_score * 1.2
FltMax == 1000000             \* distance FAISS reports for a missing hit

CosVals == {0, 10}            \* cos_sim(query, chunk) of the embedding model
DistVals == {0, 40}           \* squared L2 distances of unit vectors

\* calculate_relevance_score with min(1.0, ...) only
calculate_relevance_scoreNoFloor(cosine_sim, distance) ==
    LET similarity == 1000 - (distance * 1000) \div MaxDistance
        combined_score == (CosineWeight * cosine_sim * 100
                           + DistanceWeight * similarity) \div 10
    IN  Min2(1000, (combined_score * Boost) \div 10)

calculate_relevance_score(cosine_sim, distance) ==
    LET similarity == 1000 - (distance * 1000) \div MaxDistance
        combined_score == (CosineWeight * cosine_sim * 100
                           + DistanceWeight * similarity) \div 10
    IN  Max2(0, Min2(1000, (combined_score * Boost) \div 10))

\* get_context_window with end_idx = min(len, match_index + window_size)
get_context_windowNoPlus(chunks, match_index, window_size) ==
    LET start_idx == Max2(0, match_index - window_size)
        end_idx == Min2(Len(chunks), match_index + window_size)
    IN  PySlice(chunks, start_idx, end_idx)

\* get_context_window: the chunk texts start_idx .. end_idx - 1, joined
get_context_window(chunks, match_index, window_size) ==
    LET start_idx == Max2(0, match_index - window_size)
        end_idx == Min2(Len(chunks), match_index + window_size + 1)
    IN  PySlice(chunks, start_idx, end_idx)

\* sorted(seq, key = relevance_score, reverse = True): stable
RECURSIVE InsertByScore(_, _)
InsertByScore(sorted, r) ==
    IF sorted = << >> THEN <<r>>
    ELSE IF Head(sorted).relevance_score >= r.relevance_score
         THEN <<Head(sorted)>> \o InsertByScore(Tail(sorted), r)
         ELSE <<r>> \o sorted

RECURSIVE SortByScore(_)
SortByScore(seq) ==
    IF seq = << >> THEN << >>
    ELSE InsertByScore(SortByScore(SubSeq(seq, 1, Len(seq) - 1)), seq[Len(seq)])

\* process_search_results: zip(chunks, distances, indices) pairs the i-th
\* chunk of the list with the i-th hit; cosines[i] is the similarity of the
\* query to that i-th chunk.
process_search_results(chunks, distances, indices, cosines, top_k) ==
    LET n == Min2(Len(chunks), Min2(Len(distances), Len(indices)))
        texts == [i \in 1..Len(chunks) |-> chunks[i].chunk_text]
        results == [i \in 1..n |->
            [chunk |-> chunks[i].chunk_text,
             context |-> get_context_window(texts, indices[i], ContextWindow),
             relevance_score |-> calculate_relevance_score(cosines[i], distances[i]),
             distance |-> distances[i],
             position |-> indices[i]]]
    IN  PySlice(SortByScore(results), 0, top_k)

\* index.search(query, k) on an index of ntotal entries, for k >= 0: the
\* min(k, ntotal) nearest entries by ascending distance, then -1 / FltMax.
IsSearchOutcome(ntotal, k, D, I) ==
    LET m == Min2(k, ntotal)
    IN  /\ \A i \in 1..k : IF i <= m THEN I[i] \in 0..(ntotal - 1) /\ D[i] \in DistVals
                           ELSE I[i] = -1 /\ D[i] = FltMax
        /\ \A i, j \in 1..m : i < j => I[i] # I[j] /\ D[i] <= D[j]

\* MergeWalk without the seen_positions test
RECURSIVE MergeWalkNoSeen(_, _, _, _, _, _)
MergeWalkNoSeen(sorted, i, seen_positions, filtered_results, top_k, min_relevance_score) ==
    IF i > Len(sorted) THEN filtered_results
    ELSE LET result == sorted[i]
         IN  IF result.relevance_score >= min_relevance_score
             THEN LET filtered == Append(filtered_results, result)
                  IN  IF Len(filtered) >= top_k THEN filtered
                      ELSE MergeWalkNoSeen(sorted, i + 1, seen_positions,
                               filtered, top_k, min_relevance_score)
             ELSE MergeWalkNoSeen(sorted, i + 1, seen_positions, filtered_results,
                                  top_k, min_relevance_score)

\* MergeWalk with relevance_score > min_relevance_score
RECURSIVE MergeWalkStrict(_, _, _, _, _, _)
MergeWalkStrict(sorted, i, seen_positions, filtered_results, top_k, min_relevance_score) ==
    IF i > Len(sorted) THEN filtered_results
    ELSE LET result == sorted[i]
         IN  IF /\ result.position \notin seen_positions
                /\ result.relevance_score > min_relevance_score
             THEN LET filtered == Append(filtered_results, result)
                  IN  IF Len(filtered) >= top_k THEN filtered
                      ELSE MergeWalkStrict(sorted, i + 1,
                               seen_positions \cup {result.position},
                               filtered, top_k, min_relevance_score)
             ELSE MergeWalkStrict(sorted, i + 1, seen_positions, filtered_results,
                                  top_k, min_relevance_score)

\* MergeWalk that leaves the loop one result late
RECURSIVE MergeWalkLate(_, _, _, _, _, _)
MergeWalkLate(sorted, i, seen_positions, filtered_results, top_k, min_relevance_score) ==
    IF i > Len(sorted) THEN filtered_results
    ELSE LET result == sorted[i]
         IN  IF /\ result.position \notin seen_positions
                /\ result.relevance_score >= min_relevance_score
             THEN LET filtered == Append(filtered_results, result)
                  IN  IF Len(filtered) > top_k THEN filtered
                      ELSE MergeWalkLate(sorted, i + 1,
                               seen_positions \cup {result.position},
                               filtered, top_k, min_relevance_score)
             ELSE MergeWalkLate(sorted, i + 1, seen_positions, filtered_results,
                                top_k, min_relevance_score)

\* the loop of query_documents over sorted(all_results): lines 67-75
RECURSIVE MergeWalk(_, _, _, _, _, _)
MergeWalk(sorted, i, seen_positions, filtered_results, top_k, min_relevance_score) ==
    IF i > Len(sorted) THEN filtered_results
    ELSE LET result == sorted[i]
         IN  IF /\ result.position \notin seen_positions
                /\ result.relevance_score >= min_relevance_score
             THEN LET filtered == Append(filtered_results, result)
                  IN  IF Len(filtered) >= top_k THEN filtered
                      ELSE MergeWalk(sorted, i + 1,
                               seen_positions \cup {result.position},
                               filtered, top_k, min_relevance_score)
             ELSE MergeWalk(sorted, i + 1, seen_positions, filtered_results,
                            top_k, min_relevance_score)

\* FilterResults walking all_results in collection order
FilterResultsUnsorted(all_results, top_k, min_relevance_score) ==
    MergeWalk(all_results, 1, {}, << >>, top_k, min_relevance_score)

FilterResults(all_results, top_k, min_relevance_score) ==
    MergeWalk(SortByScore(all_results), 1, {}, << >>, top_k, min_relevance_score)

\* ------------------------------------------------------------------ query

TopKs == -1..MaxTopK
\* min_relevance_score: zero, the default, and a score the scorer produces
MinScores == {0, DefaultMinScore, calculate_relevance_score(10, 40)}
Requests ==
    [top_k : TopKs, min_relevance_score : MinScores, include_context : {TRUE}]
    \cup [top_k : {1}, min_relevance_score : {DefaultMinScore}, include_context : {FALSE}]
NoReq == [top_k |-> 0, min_relevance_score |-> 0, include_context |-> FALSE]

QueryInit ==
    /\ qPc = "idle"
    /\ qReq = NoReq
    /\ qIndex = << >>
    /\ qChunks = << >>
    /\ qVarsLeft = 0
    /\ qAll = << >>
    /\ qFiltered = << >>
    /\ qResp = NoResp
    /\ qVariants = -1
    /\ fResp = NoResp

NoIndexDetail == "No indexed documents found. Upload files first."

\* exceptions raised inside the try block of query_documents
HTTPException(status_code, detail) ==
    [type |-> "HTTPException", status_code |-> status_code, detail |-> detail]
Exception(detail) == [type |-> "Exception", status_code |-> 0, detail |-> detail]

\* except Exception as e (lines 114-119): every exception raised in the try
\* block, an HTTPException included, becomes HTTPException(500) whose detail
\* is "Error processing query: " followed by str(e)
ExceptClause(e) == HTTPException(500, <<"Error processing query: ", e>>)

\* the response FastAPI sends for an HTTPException leaving the handler
ErrorResponse(e) == [status |-> e.status_code, detail |-> e.detail]

\* load_index_and_chunks returned (None, None): lines 40-44 raise
\* HTTPException(400) inside the try block
NoIndexResponse == ErrorResponse(ExceptClause(HTTPException(400, NoIndexDetail)))

\* an exception of encode, index.search or process_search_results
VariantFailure == Exception("variant")
IndexError == Exception("list index out of range")

QueryFails(resp) ==
    /\ qResp' = resp
    /\ qPc' = "idle"
    /\ qIndex' = << >>
    /\ qChunks' = << >>
    /\ qVarsLeft' = 0

\* POST /query; load_index_and_chunks tests os.path.exists of both files
QueryStart(requests) ==
    /\ qPc = "idle"
    /\ \E req \in requests : qReq' = req
    /\ qAll' = << >>
    /\ qFiltered' = << >>
    /\ qVariants' = -1
    /\ fResp' = NoResp
    /\ IF indexFile.state = "absent" \/ chunksFile.state = "absent"
       THEN QueryFails(NoIndexResponse)
       ELSE /\ qPc' = "read_index"
            /\ qResp' = NoResp
            /\ UNCHANGED <<qIndex, qChunks, qVarsLeft>>
    /\ UNCHANGED <<fileVars, upVars, fnVars>>

\* QueryReadIndex that opens faiss_index.index for writing
QueryReadIndexOpensForWriting ==
    /\ qPc = "read_index"
    /\ indexFile' = Truncated
    /\ IF indexFile.state = "ok"
       THEN /\ qIndex' = indexFile.data
            /\ qPc' = "read_chunks"
            /\ UNCHANGED <<qChunks, qVarsLeft, qResp>>
       ELSE QueryFails(NoIndexResponse)
    /\ UNCHANGED <<qReq, qAll, qFiltered, qVariants, fResp, chunksFile, upVars, fnVars>>

\* faiss.read_index(INDEX_PATH); an unreadable file raises, and the except
\* clause of load_index_and_chunks returns (None, None)
QueryReadIndex ==
    /\ qPc = "read_index"
    /\ IF indexFile.state = "ok"
       THEN /\ qIndex' = indexFile.data
            /\ qPc' = "read_chunks"
            /\ UNCHANGED <<qChunks, qVarsLeft, qResp>>
       ELSE QueryFails(NoIndexResponse)
    /\ UNCHANGED <<qReq, qAll, qFiltered, qVariants, fResp, fileVars, upVars, fnVars>>

\* pickle.load of CHUNKS_PATH, then expand_query: between 0 and MaxVariants
\* distinct non-empty variations
QueryReadChunks(variantCounts) ==
    /\ qPc = "read_chunks"
    /\ IF chunksFile.state = "ok"
       THEN /\ qChunks' = chunksFile.data
            /\ \E nv \in variantCounts : qVarsLeft' = nv /\ qVariants' = nv
            /\ qPc' = "search"
            /\ UNCHANGED <<qIndex, qResp>>
       ELSE QueryFails(NoIndexResponse) /\ UNCHANGED qVariants
    /\ UNCHANGED <<qReq, qAll, qFiltered, fResp, fileVars, upVars, fnVars>>

\* one iteration of the loop over query_variations: encode, index.search,
\* process_search_results.  An exception of any of them leaves the loop and
\* the try block.  index.search raises for k < 0; for k = 0 it raises or
\* returns no hit, depending on the FAISS release.
QuerySearchVariant ==
    /\ qPc = "search"
    /\ qVarsLeft > 0
    /\ \/ /\ QueryFails(ErrorResponse(ExceptClause(VariantFailure)))
          /\ UNCHANGED qAll
       \/ /\ qReq.top_k >= 0
          /\ \E I \in [1..qReq.top_k -> -1..(Len(qIndex) - 1)],
                D \in [1..qReq.top_k -> DistVals \cup {FltMax}],
                cosines \in [1..Min2(Len(qChunks), qReq.top_k) -> CosVals] :
                /\ IsSearchOutcome(Len(qIndex), qReq.top_k, D, I)
                /\ qAll' = qAll \o process_search_results(qChunks, D, I, cosines,
                                                          qReq.top_k)
          /\ qVarsLeft' = qVarsLeft - 1
          /\ UNCHANGED <<qPc, qIndex, qChunks, qResp>>
    /\ UNCHANGED <<qReq, qFiltered, qVariants, fResp, fileVars, upVars, fnVars>>

SearchResult(result, include_context) ==
    [chunk |-> result.chunk,
     context |-> IF include_context THEN result.context ELSE << >>,
     relevance_score |-> result.relevance_score,
     distance |-> result.distance,
     position |-> result.position]

TableRow(chunk) ==
    [doc_id |-> chunk.document, extracted_text |-> chunk.chunk_text,
     citation |-> <<chunk.page, chunk.paragraph, chunk.sentence>>]

\* QueryMerge that raises when nothing was collected
QueryMergeRejectsEmpty ==
    /\ qPc = "search"
    /\ qVarsLeft = 0
    /\ LET filtered_results == FilterResults(qAll, qReq.top_k, qReq.min_relevance_score)
           n == Len(filtered_results)
       IN  /\ qFiltered' = filtered_results
           /\ IF qAll = << >> \/ \E i \in 1..n : ~PyIndexOk(qChunks, filtered_results[i].position)
              THEN qResp' = ErrorResponse(ExceptClause(IndexError))
              ELSE \E themes_ok \in BOOLEAN :
                   qResp' = [status |-> 200,
                      results |-> [i \in 1..n |->
                          SearchResult(filtered_results[i], qReq.include_context)],
                      total_matches |-> n,
                      theme_summary |->
                          IF n = 0 THEN "No relevant themes found."
                          ELSE IF themes_ok THEN "themes"
                          ELSE "Theme synthesis failed.",
                      results_table |-> [i \in 1..n |->
                          TableRow(PyIndex(qChunks, filtered_results[i].position))]]
    /\ qPc' = "idle"
    /\ UNCHANGED <<qReq, qIndex, qChunks, qVarsLeft, qAll, qVariants, fResp,
                   fileVars, upVars, fnVars>>

\* query_documents after the loop: dedup and filter, build the response
QueryMerge ==
    /\ qPc = "search"
    /\ qVarsLeft = 0
    /\ LET filtered_results == FilterResults(qAll, qReq.top_k, qReq.min_relevance_score)
           n == Len(filtered_results)
       IN  /\ qFiltered' = filtered_results
           /\ IF \E i \in 1..n : ~PyIndexOk(qChunks, filtered_results[i].position)
              THEN qResp' = ErrorResponse(ExceptClause(IndexError))
              ELSE \E themes_ok \in BOOLEAN :
                   qResp' = [status |-> 200,
                      results |-> [i \in 1..n |->
                          SearchResult(filtered_results[i], qReq.include_context)],
                      total_matches |-> n,
                      theme_summary |->
                          IF n = 0 THEN "No relevant themes found."
                          ELSE IF themes_ok THEN "themes"
                          ELSE "Theme synthesis failed.",
                      results_table |-> [i \in 1..n |->
                          TableRow(PyIndex(qChunks, filtered_results[i].position))]]
    /\ qPc' = "idle"
    /\ UNCHANGED <<qReq, qIndex, qChunks, qVarsLeft, qAll, qVariants, fResp,
                   fileVars, upVars, fnVars>>

\* ------------------------------------------------ POST /query_results
\* QueryRequest of query_results.py: query and top_k only
FormattedRequest(top_k) == [top_k |-> top_k]

\* an exception leaving query_documents_formatted: no try block encloses the
\* handler, FastAPI answers 500
InternalServerError == [status |-> 500, detail |-> "Internal Server Error"]

\* lines 18-19: raised outside any try block, the client sees status 400
FormattedNoIndex == ErrorResponse(HTTPException(400, NoIndexDetail))

FormattedFails(resp) ==
    /\ fResp' = resp
    /\ qPc' = "idle"
    /\ qIndex' = << >>
    /\ qChunks' = << >>

FormattedRow(chunk) ==
    [Document |-> chunk.document, ExtractedAnswer |-> chunk.chunk_text,
     Citation |-> <<chunk.page, chunk.paragraph, chunk.sentence>>]

\* the loop over I[0] (lines 24-41): an idx >= len(chunks) is skipped, every
\* other idx is looked up with chunks[idx], where -1 is the last chunk
RECURSIVE FormattedTable(_, _, _, _)
FormattedTable(chunks, I, rank, results_table) ==
    IF rank > Len(I) THEN results_table
    ELSE IF I[rank] >= Len(chunks)
         THEN FormattedTable(chunks, I, rank + 1, results_table)
         ELSE FormattedTable(chunks, I, rank + 1,
                             Append(results_table, FormattedRow(PyIndex(chunks, I[rank]))))

FormattedLookupsOk(chunks, I) ==
    \A rank \in 1..Len(I) : I[rank] >= Len(chunks) \/ PyIndexOk(chunks, I[rank])

FormattedStart(topks) ==
    /\ qPc = "idle"
    /\ \E k \in topks : qReq' = FormattedRequest(k)
    /\ qAll' = << >>
    /\ qFiltered' = << >>
    /\ qVariants' = -1
    /\ qResp' = NoResp
    /\ qVarsLeft' = 0
    /\ IF indexFile.state = "absent" \/ chunksFile.state = "absent"
       THEN FormattedFails(FormattedNoIndex)
       ELSE /\ qPc' = "f_read_index"
            /\ fResp' = NoResp
            /\ UNCHANGED <<qIndex, qChunks>>
    /\ UNCHANGED <<fileVars, upVars, fnVars>>

FormattedReadIndex ==
    /\ qPc = "f_read_index"
    /\ IF indexFile.state = "ok"
       THEN /\ qIndex' = indexFile.data
            /\ qPc' = "f_read_chunks"
            /\ UNCHANGED <<qChunks, fResp>>
       ELSE FormattedFails(FormattedNoIndex)
    /\ UNCHANGED <<qReq, qVarsLeft, qAll, qFiltered, qResp, qVariants,
                   fileVars, upVars, fnVars>>

FormattedReadChunks ==
    /\ qPc = "f_read_chunks"
    /\ IF chunksFile.state = "ok"
       THEN /\ qChunks' = chunksFile.data
            /\ qPc' = "f_search"
            /\ UNCHANGED <<qIndex, fResp>>
       ELSE FormattedFails(FormattedNoIndex)
    /\ UNCHANGED <<qReq, qVarsLeft, qAll, qFiltered, qResp, qVariants,
                   fileVars, upVars, fnVars>>

\* lines 21-54: encode, index.search, the table and the response.  An
\* exception of encode or index.search (k < 0 always, k = 0 in some FAISS
\* releases) or of chunks[idx] leaves the handler.
FormattedSearch ==
    /\ qPc = "f_search"
    /\ \/ fResp' = InternalServerError
       \/ /\ qReq.top_k >= 0
          /\ \E I \in [1..qReq.top_k -> -1..(Len(qIndex) - 1)],
                D \in [1..qReq.top_k -> DistVals \cup {FltMax}] :
                /\ IsSearchOutcome(Len(qIndex), qReq.top_k, D, I)
                /\ fResp' = IF FormattedLookupsOk(qChunks, I)
                            THEN [status |-> 200,
                                  results_table |-> FormattedTable(qChunks, I, 1, << >>)]
                            ELSE InternalServerError
    /\ qPc' = "idle"
    /\ UNCHANGED <<qReq, qIndex, qChunks, qVarsLeft, qAll, qFiltered, qResp,
                   qVariants, fileVars, upVars, fnVars>>

vars == <<indexFile, chunksFile, upPc, upFiles, upInput, upCur, upResults,
          upResp, qPc, qReq, qIndex, qChunks, qVarsLeft, qAll, qFiltered, qResp,
          qVariants, fResp, fnIn, fnOut>>

\* ---------------------------------------------------------- specifications
\* The whole service: uploads and queries interleave at the file operations.
SysRequest == [top_k |-> 2, min_relevance_score |-> DefaultMinScore,
               include_context |-> TRUE]

NoFn == [done |-> FALSE]
FnIdle == fnIn = NoFn /\ fnOut = NoFn

Init == UploadInit /\ QueryInit /\ FnIdle
Next ==
    \/ UploadStart
    \/ ProcessFileBuild
    \/ WriteIndexOpen
    \/ WriteIndexData
    \/ WriteChunksOpen
    \/ WriteChunksData
    \/ SaveProcessedText
    \/ UploadRespond
    \/ QueryStart({SysRequest})
    \/ QueryReadIndex
    \/ QueryReadChunks({1})
    \/ QuerySearchVariant
    \/ QueryMerge
    \/ FormattedStart({SysRequest.top_k})
    \/ FormattedReadIndex
    \/ FormattedReadChunks
    \/ FormattedSearch
Spec == Init /\ [][Next]_vars

\* Queries against a persisted state left by earlier uploads: the files
\* survive a restart of the service, the handlers' variables do not.
StoredIndexes == {Absent, Truncated} \cup
    {Written(create_faiss_index(chunk_text(f.text, f.filename))) : f \in {FileA, FileB}}
StoredChunks == {Absent, Truncated} \cup
    {Written(chunk_text(f.text, f.filename)) : f \in {FileA, FileB}}

InitQuery ==
    /\ indexFile \in StoredIndexes
    /\ chunksFile \in StoredChunks
    /\ indexFile = Absent => chunksFile = Absent
    /\ upPc = "idle"
    /\ upFiles = << >>
    /\ upInput = << >>
    /\ upCur = NoCur
    /\ upResults = << >>
    /\ upResp = NoResp
    /\ QueryInit
    /\ FnIdle
NextQuery ==
    \/ QueryStart(Requests)
    \/ QueryReadIndex
    \/ QueryReadChunks(0..MaxVariants)
    \/ QuerySearchVariant
    \/ QueryMerge
    \/ FormattedStart(TopKs)
    \/ FormattedReadIndex
    \/ FormattedReadChunks
    \/ FormattedSearch
SpecQuery == InitQuery /\ [][NextQuery]_vars
\* ------------------------------------------------------------- properties
Answered == qPc = "idle" /\ qResp.status = 200
Positions(results) == {results[i].position : i \in 1..Len(results)}
BestScore(p) ==
    LET scores == {qAll[j].relevance_score :
                      j \in {k \in 1..Len(qAll) : qAll[k].position = p}}
    IN  CHOOSE x \in scores : \A y \in scores : y <= x

\* C1: no two results of a returned result list share a position.
DedupInvariant ==
    Answered =>
        \A i, j \in 1..Len(qResp.results) :
            i # j => qResp.results[i].position # qResp.results[j].position

\* a returned position that two entries of all_results carry
DedupWitness ==
    /\ Answered
    /\ \E i, j \in 1..Len(qAll) :
          /\ i < j
          /\ qAll[i].position = qAll[j].position
          /\ qAll[j].relevance_score >= qReq.min_relevance_score
          /\ qAll[i].relevance_score >= qReq.min_relevance_score
          /\ qAll[i].position \in Positions(qResp.results)
          /\ Len(qResp.results) < qReq.top_k

\* C2: a returned entry carries the maximum relevance_score of all the
\* occurrences of its position in all_results.
RankPreservation ==
    Answered =>
        \A i \in 1..Len(qResp.results) : \A j \in 1..Len(qAll) :
            qAll[j].position = qResp.results[i].position
                => qAll[j].relevance_score <= qResp.results[i].relevance_score

\* a returned position whose first collected occurrence has the lower score
RankWitness ==
    /\ Answered
    /\ \E i, j \in 1..Len(qAll) :
          /\ i < j
          /\ qAll[i].position = qAll[j].position
          /\ qAll[i].relevance_score < qAll[j].relevance_score
          /\ qAll[i].relevance_score >= qReq.min_relevance_score
          /\ qAll[i].position \in Positions(qResp.results)

\* C3: the chunk text of a returned result is the text of the chunk stored
\* at the result's position.
ChunkAlignment ==
    Answered =>
        \A i \in 1..Len(qResp.results) :
            qResp.results[i].chunk
                = PyIndex(qChunks, qResp.results[i].position).chunk_text

\* C4: the (index, chunks) pair a query searches comes from one build:
\* equal lengths, and entry i is the vector of chunk i.
LoadedPairFromOneBuild ==
    qPc = "search" =>
        /\ Len(qIndex) = Len(qChunks)
        /\ \A i \in 1..Len(qIndex) : qIndex[i] = Embed(qChunks[i].chunk_text)

\* C5: after a successful /upload the persisted chunks and index hold the
\* chunks of every file reported "success", in the order of the files.
FileNamed(name) == CHOOSE f \in Files : f.filename = name
RECURSIVE ChunksOfResults(_)
ChunksOfResults(results) ==
    IF results = << >> THEN << >>
    ELSE (IF Head(results).status = "success"
          THEN chunk_text(FileNamed(Head(results).filename).text,
                          Head(results).filename)
          ELSE << >>) \o ChunksOfResults(Tail(results))

UploadsAccumulate ==
    (upPc = "idle" /\ upResp.status = 200) =>
        /\ chunksFile = Written(ChunksOfResults(upResp.results))
        /\ indexFile = Written(create_faiss_index(ChunksOfResults(upResp.results)))

\* C6: the failure of one variant never makes the whole query fail.
VariantFailureIsolated ==
    qResp.status = 500 => qResp.detail[2] # VariantFailure

\* C7: a query without any persisted index is answered with status 400 and
\* the no-index detail.
NoIndexIsStatus400 ==
    (indexFile = Absent /\ chunksFile = Absent /\ qPc = "idle" /\ qResp # NoResp)
        => qResp = [status |-> 400, detail |-> NoIndexDetail]

\* C8: a persisted pair with different entry counts, or with only one
\* readable file, is never searched and is not reported as "no index".
PersistedPairCorrupt ==
    /\ indexFile # Absent
    /\ \/ indexFile.state # "ok"
       \/ chunksFile.state # "ok"
       \/ Len(indexFile.data) # Len(chunksFile.data)
CorruptPairIsFatal ==
    PersistedPairCorrupt =>
        /\ qPc # "search"
        /\ qResp # NoIndexResponse
        /\ qResp.status # 200

\* C9: every returned result has relevance_score >= min_relevance_score;
\* when fewer than top_k results are returned, every position of
\* all_results whose best score is >= min_relevance_score is returned; and
\* the walk does not stop before top_k results while such positions remain.
Eligible == {p \in Positions(qAll) : BestScore(p) >= qReq.min_relevance_score}
AcceptanceRule ==
    Answered =>
        /\ \A i \in 1..Len(qResp.results) :
              qResp.results[i].relevance_score >= qReq.min_relevance_score
        /\ Len(qResp.results) < qReq.top_k
              => Eligible \subseteq Positions(qResp.results)
        /\ Len(qResp.results) >= Min2(qReq.top_k, Cardinality(Eligible))
        /\ Positions(qResp.results) \subseteq Eligible

\* fewer than top_k results: one position rejected for its score, one accepted
AcceptanceWitness ==
    /\ Answered
    /\ Len(qResp.results) < qReq.top_k
    /\ Len(qResp.results) >= 1
    /\ \E p \in Positions(qAll) : BestScore(p) = qReq.min_relevance_score
    /\ \E p \in Positions(qAll) : p \notin Eligible

\* C10 as stated: for every top_k the request model accepts, at most top_k
\* results are returned.
TopKBoundEveryTopK ==
    Answered =>
        /\ Len(qResp.results) <= qReq.top_k
        /\ qResp.total_matches <= qReq.top_k

\* C10, amended: for every top_k >= 0, at most top_k results are returned.
TopKBound ==
    (Answered /\ qReq.top_k >= 0) =>
        /\ Len(qResp.results) <= qReq.top_k
        /\ qResp.total_matches <= qReq.top_k

\* more eligible positions than top_k, and exactly top_k results
TopKWitness ==
    /\ Answered
    /\ qReq.top_k >= 1
    /\ Cardinality(Eligible) > qReq.top_k
    /\ Len(qResp.results) = qReq.top_k

\* C11: the returned results are ordered by relevance_score descending, and
\* results of equal relevance_score by ascending position, whatever the order
\* in which the variants were searched.
ScoreThenPositionOrder ==
    (Answered /\ ~PersistedPairCorrupt) =>
        \A i, j \in 1..Len(qResp.results) :
            i < j =>
                \/ qResp.results[i].relevance_score > qResp.results[j].relevance_score
                \/ /\ qResp.results[i].relevance_score = qResp.results[j].relevance_score
                   /\ qResp.results[i].position < qResp.results[j].position

\* C12: with a persisted pair of n entries, every position returned by
\* query_documents lies in 0..n-1, and query_documents_formatted looks up no
\* chunk for a padding hit: its table has at most one row per stored entry.
NoSentinelLookup ==
    ~PersistedPairCorrupt =>
        /\ Answered =>
              \A i \in 1..Len(qResp.results) :
                  qResp.results[i].position \in 0..(Len(qIndex) - 1)
        /\ (qPc = "idle" /\ fResp.status = 200) =>
              Len(fResp.results_table) <= Len(indexFile.data)

\* ------------------------------------------- the functions on their own
\* A call of one function: fnIn holds the arguments, fnOut the result.
FnQuiet == UploadInit /\ QueryInit
FnReturns(value) ==
    /\ ~fnOut.done
    /\ fnOut' = [done |-> TRUE, value |-> value]
    /\ UNCHANGED <<fnIn, fileVars, upVars, qVars>>

\* get_context_window on the texts of 1..MaxLen chunks
MaxLen == 5
MaxWindow == 3
ChunkTexts(n) == [i \in 1..n |-> <<"text", i - 1>>]
ContextCalls ==
    {[done |-> TRUE, chunks |-> ChunkTexts(n), match_index |-> p, window_size |-> w] :
        n \in 1..MaxLen, p \in 0..(MaxLen - 1), w \in 0..MaxWindow}
InitContext ==
    /\ FnQuiet
    /\ fnIn \in {c \in ContextCalls : c.match_index < Len(c.chunks)}
    /\ fnOut = NoFn
ContextCall ==
    FnReturns(get_context_window(fnIn.chunks, fnIn.match_index, fnIn.window_size))
SpecContext == InitContext /\ [][ContextCall]_vars

\* C13: for a sequence of len >= 1 chunks, a position in 0..len-1 and a
\* window >= 0, get_context_window returns the texts of the chunks at
\* positions max(0, position - window) .. min(len - 1, position + window), in
\* ascending order, and reads no index outside 0..len-1.
ContextWindowExact ==
    fnOut.done =>
        LET len == Len(fnIn.chunks)
            first == Max2(0, fnIn.match_index - fnIn.window_size)
            last == Min2(len - 1, fnIn.match_index + fnIn.window_size)
        IN  /\ Len(fnOut.value) = last - first + 1
            /\ \A i \in 1..Len(fnOut.value) :
                  /\ first + i - 1 \in 0..(len - 1)
                  /\ fnOut.value[i] = fnIn.chunks[first + i]

\* a window cut at both ends of the sequence, and one cut at neither
ContextWindowWitness ==
    /\ fnOut.done
    /\ fnIn.window_size > 0
    /\ \/ /\ fnIn.match_index - fnIn.window_size < 0
          /\ fnIn.match_index + fnIn.window_size > Len(fnIn.chunks) - 1
          /\ fnOut.value = fnIn.chunks
       \/ /\ fnIn.match_index - fnIn.window_size > 0
          /\ fnIn.match_index + fnIn.window_size < Len(fnIn.chunks) - 1

\* chunk_text on texts of one or two paragraphs.  A sentence id is
\* <<paragraph tag, number, words>>; an empty paragraph is a blank one.
MaxSentences == 3
SentenceWords == {5, 40, 60, 120}
LeadParagraphs ==
    { << >>,
      <<S(<<"q", 1, 30>>, 30)>>,
      <<S(<<"q", 1, 60>>, 60), S(<<"q", 2, 45>>, 45), S(<<"q", 3, 5>>, 5)>> }
BodyParagraphs ==
    UNION {{[k \in 1..n |-> S(<<"p", k, w[k]>>, w[k])] : w \in [1..n -> SentenceWords]} :
              n \in 0..MaxSentences}
ChunkInputs ==
    {<<p>> : p \in BodyParagraphs}
        \cup {<<q, p>> : q \in LeadParagraphs, p \in BodyParagraphs}
InitChunk ==
    /\ FnQuiet
    /\ fnIn \in {[done |-> TRUE, extracted_text |-> t, doc_name |-> "d.txt"] :
                    t \in ChunkInputs}
    /\ fnOut = NoFn
\* chunk_text called twice on the same arguments
ChunkCall ==
    FnReturns(<<chunk_text(fnIn.extracted_text, fnIn.doc_name),
                chunk_text(fnIn.extracted_text, fnIn.doc_name)>>)
SpecChunk == InitChunk /\ [][ChunkCall]_vars

RECURSIVE Flatten(_)
Flatten(seqs) == IF seqs = << >> THEN << >> ELSE Head(seqs) \o Flatten(Tail(seqs))
ChunkOrderMatchesInput ==
    LET chunks == fnOut.value[1]
    IN  /\ \A i, j \in 1..Len(chunks) :
              i < j => /\ chunks[i].paragraph <= chunks[j].paragraph
                       /\ chunks[i].paragraph = chunks[j].paragraph
                              => chunks[i].sentence < chunks[j].sentence
        /\ Flatten([i \in 1..Len(chunks) |-> chunks[i].chunk_text])
              = Flatten([i \in 1..Len(fnIn.extracted_text) |->
                            SentenceIds(fnIn.extracted_text[i])])
        /\ fnOut.value[2] = chunks

\* a text of two paragraphs (it holds the separator) or of one paragraph with
\* a sentence is a non-empty string
NonEmptyText(text) == Len(text) >= 2 \/ text[1] # << >>
HasNonBlankParagraph(text) == \E i \in 1..Len(text) : text[i] # << >>

RECURSIVE ChunkWords(_)
ChunkWords(ids) == IF ids = << >> THEN 0 ELSE Head(ids)[3] + ChunkWords(Tail(ids))
ParagraphOf(chunk) ==
    SelectSeq(fnIn.extracted_text, LAMBDA p : p # << >>)[chunk.paragraph]
FromLongParagraph(chunk) == WordCount(ParagraphOf(chunk)) >= ShortParagraphWords

\* C15 as stated: a chunk cut from a paragraph of 50 or more words has at
\* most 100 words.
LongParagraphChunkAtMostTarget ==
    fnOut.done =>
        \A i \in 1..Len(fnOut.value[1]) :
            FromLongParagraph(fnOut.value[1][i])
                => ChunkWords(fnOut.value[1][i].chunk_text) <= TargetWords

\* C15: a chunk cut from a paragraph of 50 or more words is closed by the
\* first sentence that brings it to 100 words: without its last sentence it
\* has fewer than 100 words, and it has 100 words or more unless it ends with
\* the last sentence of the paragraph.
LongParagraphChunkClosedAtTarget ==
    fnOut.done =>
        \A i \in 1..Len(fnOut.value[1]) :
            LET chunk == fnOut.value[1][i]
                ids == chunk.chunk_text
            IN  FromLongParagraph(chunk) =>
                   /\ ids # << >>
                   /\ ChunkWords(SubSeq(ids, 1, Len(ids) - 1)) < TargetWords
                   /\ \/ ChunkWords(ids) >= TargetWords
                      \/ chunk.sentence = Len(ParagraphOf(chunk))

\* a chunk of several sentences and more than 100 words, and one of exactly
\* 100 words
ClosedAtTargetWitness ==
    /\ fnOut.done
    /\ \E i \in 1..Len(fnOut.value[1]) :
          /\ Len(fnOut.value[1][i].chunk_text) >= 2
          /\ ChunkWords(fnOut.value[1][i].chunk_text) > TargetWords
    /\ \E i \in 1..Len(fnOut.value[1]) :
          /\ ChunkWords(fnOut.value[1][i].chunk_text) = TargetWords
          /\ fnOut.value[1][i].sentence < Len(ParagraphOf(fnOut.value[1][i]))

\* calculate_relevance_score on cosine similarities -1.0 .. 1.0 and on
\* distances below, at and above max_distance, the padding distance included
MaxDistSteps == 5
ScoreCosines == -10..10
ScoreDistances == {10 * d : d \in -1..MaxDistSteps} \cup {FltMax}
InitScore ==
    /\ FnQuiet
    /\ fnIn \in {[done |-> TRUE, cosine_sim |-> c, distance |-> d] :
                    c \in ScoreCosines, d \in ScoreDistances}
    /\ fnOut = NoFn
ScoreCall == FnReturns(calculate_relevance_score(fnIn.cosine_sim, fnIn.distance))
SpecScore == InitScore /\ [][ScoreCall]_vars

\* C16: for every cosine similarity and every raw distance,
\* calculate_relevance_score returns a value in [0, 1].
ScoreInUnitInterval ==
    fnOut.done => fnOut.value \in 0..1000

\* a negative cosine similarity with a distance above max_distance
ScoreWitness ==
    /\ fnOut.done
    /\ fnIn.cosine_sim < 0
    /\ fnIn.distance > MaxDistance
    /\ fnOut.value = 0

\* ------------------------------------------------------- query expansion
\* A string is the sequence of its whitespace-separated words; "" is << >>.
stop_words ==
    {"a", "an", "and", "are", "as", "at", "be", "by", "for", "from", "has", "he",
     "in", "is", "it", "its", "of", "on", "that", "the", "to", "was", "were",
     "will", "with", "this", "but", "they", "have", "had", "what", "when",
     "where", "who", "which", "why", "how", "all", "any", "both", "each", "few",
     "more", "most", "other", "some", "such", "than", "too", "very", "can",
     "just", "should", "now"}

\* the words a query is made of: str.lower() of each, and the tokens that
\* re.sub(r'[^\w\s]', ' ') and re.findall(r'\b\w+\b') leave of the lowered word
Vocabulary == {"Fever", "fever", "the", "pain?", "pee"}
Lower(word) == IF word = "Fever" THEN "fever" ELSE word
Tokens(word) == IF word = "pain?" THEN <<"pain">> ELSE <<word>>

RECURSIVE PreprocessTokens(_)
PreprocessTokens(query) ==
    IF query = << >> THEN << >>
    ELSE Tokens(Lower(Head(query))) \o PreprocessTokens(Tail(query))
preprocess_query(query) ==
    SelectSeq(PreprocessTokens(query), LAMBDA token : token \notin stop_words)

\* the medical_terms table of the except clause (lines 103-114)
medical_terms ==
    [word \in {"pee", "pink", "blood", "urine", "pain", "hurt", "sick",
               "throw up", "fever", "rash"} |->
        CASE word = "pee" -> << <<"urine">>, <<"urination">>, <<"urinary">> >>
          [] word = "pink" -> << <<"reddish">>, <<"blood-tinged">>, <<"hematuria">> >>
          [] word = "blood" -> << <<"hematuria">>, <<"blood-tinged">> >>
          [] word = "urine" -> << <<"pee">>, <<"micturition">> >>
          [] word = "pain" -> << <<"discomfort">>, <<"ache">>, <<"soreness">> >>
          [] word = "hurt" -> << <<"pain">>, <<"discomfort">>, <<"ache">> >>
          [] word = "sick" -> << <<"ill">>, <<"unwell">>, <<"diseased">> >>
          [] word = "throw up" -> << <<"vomit">>, <<"nausea">>, <<"emesis">> >>
          [] word = "fever" -> << <<"pyrexia">>, <<"temperature">> >>
          [] word = "rash" -> << <<"eruption">>, <<"dermatitis">>, <<"skin", "condition">> >>]

\* the loop over query.lower().split() (lines 117-120)
RECURSIVE ExtendWithTerms(_, _)
ExtendWithTerms(words, variations) ==
    IF words = << >> THEN variations
    ELSE ExtendWithTerms(Tail(words),
            IF Lower(Head(words)) \in DOMAIN medical_terms
            THEN variations \o medical_terms[Lower(Head(words))]
            ELSE variations)

\* variations before list(set(filter(None, variations))): llm.ok tells
\* whether the completion call returned, llm.variations what it returned
Variations(query, llm) ==
    IF llm.ok THEN <<query, preprocess_query(query)>> \o llm.variations
    ELSE ExtendWithTerms(query, <<query, preprocess_query(query)>>)

\* the lists list(set(...)) can return: the distinct elements in any order
RECURSIVE ListsOfSet(_)
ListsOfSet(set) ==
    IF set = {} THEN {<< >>}
    ELSE UNION {{<<x>> \o rest : rest \in ListsOfSet(set \ {x})} : x \in set}

\* expand_query without filter(None, ...)
expand_queryKeepsEmpty(query, llm) ==
    LET variations == Variations(query, llm)
    IN  ListsOfSet({variations[i] : i \in 1..Len(variations)})

\* expand_query: the lists it can return
expand_query(query, llm) ==
    LET variations == Variations(query, llm)
    IN  ListsOfSet({variations[i] : i \in 1..Len(variations)} \ {<< >>})

MaxQueryWords == 2
Queries == UNION {[1..n -> Vocabulary] : n \in 0..MaxQueryWords}
LlmFailed == [ok |-> FALSE, variations |-> << >>]
LlmOutcomes ==
    {LlmFailed,
     [ok |-> TRUE, variations |-> << << >> >>],
     [ok |-> TRUE, variations |-> << <<"pyrexia">>, <<"high", "temperature">> >>]}
InitExpand ==
    /\ FnQuiet
    /\ fnIn \in {[done |-> TRUE, query |-> q, llm |-> l] :
                    q \in Queries, l \in LlmOutcomes}
    /\ fnOut = NoFn
ExpandCall ==
    /\ ~fnOut.done
    /\ \E variants \in expand_query(fnIn.query, fnIn.llm) : FnReturns(variants)
SpecExpand == InitExpand /\ [][ExpandCall]_vars

Returned == {fnOut.value[i] : i \in 1..Len(fnOut.value)}
FallbackTaken == fnOut.done /\ ~fnIn.llm.ok

\* C17 as stated: when the expansion call fails, the variants returned are
\* exactly the query and its normalized form.
FallbackIsQueryAndNormalized ==
    FallbackTaken => Returned = {fnIn.query, preprocess_query(fnIn.query)}

\* C17: when the expansion call fails, expand_query returns, each once, the
\* non-empty strings among the query, its normalized form and the
\* medical_terms entries of the lower-cased words of the query.
FallbackIsQueryNormalizedAndTerms ==
    FallbackTaken =>
        LET terms == UNION {{medical_terms[Lower(fnIn.query[k])][n] :
                                n \in 1..Len(medical_terms[Lower(fnIn.query[k])])} :
                            k \in {x \in 1..Len(fnIn.query) :
                                      Lower(fnIn.query[x]) \in DOMAIN medical_terms}}
        IN  /\ \A i, j \in 1..Len(fnOut.value) :
                  i # j => fnOut.value[i] # fnOut.value[j]
            /\ << >> \notin Returned
            /\ Returned \cup {<< >>}
                  = {fnIn.query, preprocess_query(fnIn.query)} \cup terms \cup {<< >>}

\* a failed call on a query with a stopword and a word of the table: the
\* normalized form differs from the query and terms are added
FallbackWitness ==
    /\ FallbackTaken
    /\ preprocess_query(fnIn.query) \notin {<< >>, fnIn.query}
    /\ Cardinality(Returned) > 2

Successes(results) == SelectSeq(results, LAMBDA r : r.status = "success")
OnePerInputFile(results) ==
    /\ Len(results) = Len(upInput)
    /\ \A i \in 1..Len(results) :
          /\ results[i].filename = upInput[i].filename
          /\ results[i].status \in {"success", "error"}

\* C18: a file that fails does not stop the files after it: the results of
\* an accepted /upload hold one entry per input file in input order, each
\* "success" or "error", files_processed counts the "success" entries, and
\* the call is rejected only when every file failed.
PerFileIsolation ==
    /\ (upPc # "idle") =>
          /\ Len(upResults) + Len(upFiles) = Len(upInput)
          /\ \A i \in 1..Len(upFiles) : upFiles[i] = upInput[Len(upResults) + i]
    /\ (upPc = "idle" /\ upResp.status = 200) =>
          /\ OnePerInputFile(upResp.results)
          /\ upResp.files_processed = Len(Successes(upResp.results))
          /\ upResp.files_processed >= 1
          /\ upResp.total_files = Len(upInput)
    /\ (upPc = "idle" /\ upResp.status = 400) =>
          /\ OnePerInputFile(upResults)
          /\ Successes(upResults) = << >>

\* an accepted call whose first file failed and whose second succeeded
PerFileIsolationWitness ==
    /\ upPc = "idle"
    /\ upResp.status = 200
    /\ Len(upResp.results) = 2
    /\ upResp.results[1].status = "error"
    /\ upResp.results[2].status = "success"

\* C19: no step of query_documents or of query_documents_formatted, whatever
\* its outcome, changes the persisted index or the persisted chunks.
QueriesReadOnly ==
    [][(qVars' # qVars) => (indexFile' = indexFile /\ chunksFile' = chunksFile)]_vars

\* a query answered, one abandoned in the variant loop and a formatted query
\* answered, with the persisted pair in place
QueriesReadOnlyWitness ==
    /\ qPc = "idle"
    /\ indexFile.state = "ok"
    /\ chunksFile.state = "ok"
    /\ \/ qResp.status = 200 /\ qResp.total_matches > 0
       \/ qResp = ErrorResponse(ExceptClause(VariantFailure))
       \/ fResp.status = 200

\* C20: with an index loaded and an empty list of query variants,
\* query_documents searches nothing and answers 200 with no result.
NoVariantNoResult ==
    (qPc = "idle" /\ qVariants = 0) =>
        /\ qAll = << >>
        /\ qResp.status = 200
        /\ qResp.results = << >>
        /\ qResp.total_matches = 0
        /\ qResp.results_table = << >>

\* a query with no variant answered against a stored index
NoVariantWitness ==
    /\ qPc = "idle"
    /\ qVariants = 0
    /\ qResp.status = 200
    /\ Len(qIndex) > 0
    /\ qReq.top_k > 0

\* the chunks cut from the paragraph numbered para_idx, in order
ChunksOfParagraph(chunks, para_idx) ==
    SelectSeq(chunks, LAMBDA c : c.paragraph = para_idx)
NonBlankParagraphs == SelectSeq(fnIn.extracted_text, LAMBDA p : p # << >>)

\* C21: in a paragraph of 50 or more words every sentence is in exactly one
\* chunk, in order; a chunk ends exactly at the first sentence that brings
\* the buffer to 100 words or at the last sentence of the paragraph; the
\* chunk's sentence field is the number of its last sentence.
SentencesPartitioned ==
    fnOut.done =>
        \A para_idx \in 1..Len(NonBlankParagraphs) :
            LET paragraph == NonBlankParagraphs[para_idx]
                cut == ChunksOfParagraph(fnOut.value[1], para_idx)
            IN  WordCount(paragraph) >= ShortParagraphWords =>
                  /\ Flatten([i \in 1..Len(cut) |-> cut[i].chunk_text])
                        = SentenceIds(paragraph)
                  /\ cut[Len(cut)].sentence = Len(paragraph)
                  /\ \A i \in 1..Len(cut) :
                        LET ids == cut[i].chunk_text
                        IN  /\ ids # << >>
                            /\ ids[Len(ids)] = paragraph[cut[i].sentence].id
                            /\ \A n \in 1..(Len(ids) - 1) :
                                  ChunkWords(SubSeq(ids, 1, n)) < TargetWords
                            /\ i < Len(cut) => ChunkWords(ids) >= TargetWords

\* a paragraph cut at the target, whose remaining sentences are flushed as
\* a last chunk of fewer than 100 words
SentencesPartitionedWitness ==
    /\ fnOut.done
    /\ \E para_idx \in 1..Len(NonBlankParagraphs) :
          LET cut == ChunksOfParagraph(fnOut.value[1], para_idx)
          IN  /\ Len(cut) >= 2
              /\ ChunkWords(cut[1].chunk_text) >= TargetWords
              /\ Len(cut[Len(cut)].chunk_text) >= 2
              /\ ChunkWords(cut[Len(cut)].chunk_text) < TargetWords

\* process_file returns an "error" entry in this step
ReportsError ==
    /\ Len(upResults') = Len(upResults) + 1
    /\ upResults'[Len(upResults')].status = "error"

\* C22: when process_file reports "error" for a file, the persisted index
\* and chunks are what they were when process_file was entered.
FailedFileLeavesIndex ==
    [][ReportsError =>
          <<indexFile', chunksFile'>>
              = IF upPc = "file" THEN <<indexFile, chunksFile>> ELSE upCur.before]_vars

InSaveIndex == upPc \in {"write_index_data", "write_chunks", "write_chunks_data"}

\* C23: once save_index has returned or failed, a persisted pair that
\* load_index_and_chunks can read is from one build: the index holds the
\* vectors of the persisted chunks.
SaveIndexAllOrNothing ==
    (~InSaveIndex /\ indexFile.state = "ok" /\ chunksFile.state = "ok")
        => indexFile.data = create_faiss_index(chunksFile.data)
====
